---- MODULE Spec2Model ----
(***************************************************************************)
(* Model of puncc's calibration-and-aggregation engine:                    *)
(*   - ConformalPredictor / CrossValCpAggregator                           *)
(*       (src/deel/puncc/conformalization.py)                              *)
(*   - the SplitCP / CVPlus wrappers (src/deel/puncc/regression.py)        *)
(*   - the weighted empirical quantile (src/puncc/utils.py)                *)
(*                                                                         *)
(* Spec  : the fit / predict life cycle of one ConformalPredictor.         *)
(* SpecQ : calls of quantile(a, alpha, w) on bounded inputs.               *)
(*                                                                         *)
(* Real numbers are fixed-point integers, Unit standing for 1.0.           *)
(* Python strings whose characters matter are sequences of characters.     *)
(***************************************************************************)
EXTENDS Integers, Sequences, FiniteSets, TLC

VARIABLES
    cfg,        \* constructor arguments of the ConformalPredictor
    cp_agg,     \* ConformalPredictor._cv_cp_agg
    fitCalled,  \* fit has been called on the instance at least once
    fitOk,      \* the last call of fit returned normally
    lastOp,     \* the operation that ran last
    lastArgs,   \* the (X, alpha) of the last predict, else None
    outcome,    \* what the last operation gave its caller
    calls,      \* calls the last operation made on predictors / calibrators
    memo,       \* results of the predict calls made since the last fit
    repeated,   \* the last predict repeated an earlier (X, alpha)
    q_a,        \* quantile: argument a
    q_w,        \* quantile: argument w
    q_alpha,    \* quantile: argument alpha of the last call
    q_out,      \* quantile: outcome of the last call
    enbpi,      \* the EnbPI instance (its attributes), or None
    e_run,      \* EnbPI.fit in progress: position, T, bootstrap index
    e_rng,      \* seed -> sample, for the seeds resample has been given
    e_last      \* EnbPI: the last call, its arguments and what it gave

vars == <<cfg, cp_agg, fitCalled, fitOk, lastOp, lastArgs, outcome, calls,
          memo, repeated, q_a, q_w, q_alpha, q_out, enbpi, e_run, e_rng,
          e_last>>

cpVars == <<cfg, cp_agg, fitCalled, fitOk, lastOp, lastArgs, outcome, calls,
            memo, repeated>>
qVars == <<q_a, q_w, q_alpha, q_out>>
eVars == <<enbpi, e_run, e_rng, e_last>>

(***************************************************************************)
(* Bounds and fixed-point scale                                            *)
(***************************************************************************)
MaxFolds == 3      \* largest number of folds a splitter yields
MaxLen == 3        \* largest length of a and of w
Unit == 10000000   \* fixed-point 1.0 (one step is 1e-7)

\* Query sets and significance levels handed to predict.
Queries == {1}
Alphas == {0, 2000000, 5000000}
\* Data sets handed to fit.
Datasets == {1}

(***************************************************************************)
(* Values                                                                  *)
(***************************************************************************)
None == [tag |-> "None"]

Returned(v) == [kind |-> "returned", value |-> v]
Raised(e) == [kind |-> "raised", exc |-> e]
NoOutcome == [kind |-> "none"]

EmptyDict == [k \in {} |-> None]

\* dict[k] = v
DictSet(d, k, v) == [j \in (DOMAIN d) \cup {k} |-> IF j = k THEN v ELSE d[j]]

\* Python's `needle in haystack` for two strings: substring test.
StrIn(needle, haystack) ==
    \E i \in 1..(Len(haystack) + 1) :
        /\ i + Len(needle) - 1 <= Len(haystack)
        /\ SubSeq(haystack, i, i + Len(needle) - 1) = needle

CvPlusName == <<"c", "v", "+">>
Methods == {CvPlusName, <<"c", "v">>, <<"a", "g", "g">>}

(***************************************************************************)
(* External collaborators: predictor, splitter, calibrator                 *)
(***************************************************************************)
\* One (X_fit, y_fit, X_calib, y_calib) quadruple of the splitter.
Split(d, i) ==
    [fit |-> [ds |-> d, fold |-> i, part |-> "fit"],
     calib |-> [ds |-> d, fold |-> i, part |-> "calib"]]

\* splits = self.splitter(X, y): n quadruples, indexed from 0.
Splits(d, n) == [i \in 0..(n - 1) |-> Split(d, i)]

\* The predictor template held by the ConformalPredictor.
TemplatePredictor(c) == [fits |-> <<>>, is_trained |-> c.pretrained]

\* predictor.fit(X_fit, y_fit): the object records one more training.
PredictorFit(p, fitData) ==
    [fits |-> Append(p.fits, fitData), is_trained |-> TRUE]

\* predictor.predict(X) -> (y_pred, y_pred_lo, y_pred_hi, var_pred)
PredictorPredict(p, X) ==
    <<[tag |-> "y_pred", by |-> p.fits, X |-> X], None, None, None>>

\* The calibrator template held by the ConformalPredictor.
TemplateCalibrator == [residuals |-> None]

\* calibrator.fit(y_true, y_pred, X, ...): computes and stores residuals.
CalibratorFit(c, y_true, y_pred) ==
    [residuals |-> [tag |-> "residuals", y_true |-> y_true, y_pred |-> y_pred]]

\* calibrator.get_weights()
CalibratorGetWeights(c) == None

\* alpha outside ]0, 1[ makes the quantile primitive raise.
AlphaValid(alpha) == alpha > 0 /\ alpha < Unit

\* calibrator.calibrate(X, alpha, y_pred, ...) -> (y_lo, y_hi)
CalibratorCalibrate(c, X, alpha, y_pred) ==
    IF ~AlphaValid(alpha)
    THEN Raised("ValueError")
    ELSE Returned(<<[tag |-> "y_lo", res |-> c.residuals, alpha |-> alpha,
                     y_pred |-> y_pred],
                    [tag |-> "y_hi", res |-> c.residuals, alpha |-> alpha,
                     y_pred |-> y_pred]>>)

\* CvPlusCalibrator(calibrators).calibrate(X, kfold_predictors_dict, alpha)
CvPlusCalibrate(calibrators, X, predictors, alpha) ==
    IF DOMAIN calibrators = {}
    THEN Raised("RuntimeError")
    ELSE IF ~AlphaValid(alpha)
    THEN Raised("ValueError")
    ELSE LET pool == [k \in DOMAIN calibrators |->
                        [y_pred |-> PredictorPredict(predictors[k], X)[1],
                         res |-> calibrators[k].residuals]]
         IN Returned(<<[tag |-> "cv_lo", pool |-> pool, alpha |-> alpha],
                       [tag |-> "cv_hi", pool |-> pool, alpha |-> alpha]>>)

(***************************************************************************)
(* CrossValCpAggregator                                                    *)
(***************************************************************************)
\* CrossValCpAggregator.__init__(K, method).  `method not in ("cv+")` is a
\* substring test on the string "cv+"; the rejecting branch calls the
\* constant NotImplemented, which is not callable, and so raises TypeError.
AggregatorInit(K, method) ==
    IF ~StrIn(method, CvPlusName)
    THEN Raised("TypeError")
    ELSE Returned([K |-> K, method |-> method,
                   predictors |-> EmptyDict, calibrators |-> EmptyDict])

\* append_predictor(id, predictor): stores a deep copy.
AppendPredictor(agg, id, predictor) ==
    [agg EXCEPT !.predictors = DictSet(agg.predictors, id, predictor)]

\* AppendCalibrator storing every calibrator under the key 0.
AppendCalibrator_KeyZero(agg, id, calibrator) ==
    [agg EXCEPT !.calibrators = DictSet(agg.calibrators, 0, calibrator)]

\* append_calibrator(id, calibrator): stores a deep copy.
AppendCalibrator(agg, id, calibrator) ==
    [agg EXCEPT !.calibrators = DictSet(agg.calibrators, id, calibrator)]

\* get_residuals(): fold index -> residuals
AggGetResiduals(agg) ==
    [k \in DOMAIN agg.calibrators |-> agg.calibrators[k].residuals]

\* get_weights(): fold index -> weights
AggGetWeights(agg) ==
    [k \in DOMAIN agg.calibrators |-> CalibratorGetWeights(agg.calibrators[k])]

\* SingleFoldPredict with the point prediction and the variability dropped
\* from the returned tuple, as the K != 1 branch does.
SingleFoldPredict_NoPoint(agg, X, alpha) ==
    LET k == CHOOSE j \in DOMAIN agg.predictors : TRUE
        p == PredictorPredict(agg.predictors[k], X)
        c == CalibratorCalibrate(agg.calibrators[k], X, alpha, p[1])
    IN [out |-> IF c.kind = "raised"
                THEN c
                ELSE Returned(<<None, c.value[1], c.value[2], None>>),
        calls |-> <<[obj |-> "predictor", op |-> "predict", fold |-> k,
                     X |-> X],
                    [obj |-> "calibrator", op |-> "calibrate", fold |-> k,
                     X |-> X, alpha |-> alpha, y_pred |-> p[1],
                     y_pred_lo |-> p[2], y_pred_hi |-> p[3],
                     var_pred |-> p[4]]>>]

\* The K == 1 branch of CrossValCpAggregator.predict: the outcome and the
\* calls made on the stored fold's predictor and calibrator.
SingleFoldPredict(agg, X, alpha) ==
    LET k == CHOOSE j \in DOMAIN agg.predictors : TRUE
        p == PredictorPredict(agg.predictors[k], X)
        c == CalibratorCalibrate(agg.calibrators[k], X, alpha, p[1])
        made == <<[obj |-> "predictor", op |-> "predict", fold |-> k,
                   X |-> X],
                  [obj |-> "calibrator", op |-> "calibrate", fold |-> k,
                   X |-> X, alpha |-> alpha, y_pred |-> p[1],
                   y_pred_lo |-> p[2], y_pred_hi |-> p[3],
                   var_pred |-> p[4]]>>
    IN [out |-> IF c.kind = "raised"
                THEN c
                ELSE Returned(<<p[1], c.value[1], c.value[2], p[4]>>),
        calls |-> made]

\* The K != 1 branch of CrossValCpAggregator.predict.
MultiFoldPredict(agg, X, alpha) ==
    IF agg.method = CvPlusName
    THEN LET c == CvPlusCalibrate(agg.calibrators, X, agg.predictors, alpha)
         IN [out |-> IF c.kind = "raised"
                     THEN c
                     ELSE Returned(<<None, c.value[1], c.value[2], None>>),
             calls |-> <<[obj |-> "cvplus", op |-> "calibrate", X |-> X,
                          alpha |-> alpha,
                          calibrators |-> DOMAIN agg.calibrators,
                          predictors |-> DOMAIN agg.predictors]>>]
    ELSE [out |-> Raised("RuntimeError: method is not implemented"),
          calls |-> <<>>]

\* CrossValCpAggregator.predict(X, alpha)
AggPredict(agg, X, alpha) ==
    IF DOMAIN agg.predictors # DOMAIN agg.calibrators
    THEN [out |-> Raised("AssertionError"), calls |-> <<>>]
    ELSE IF Cardinality(DOMAIN agg.predictors) = 1
    THEN SingleFoldPredict(agg, X, alpha)
    ELSE MultiFoldPredict(agg, X, alpha)

(***************************************************************************)
(* ConformalPredictor.fit                                                  *)
(***************************************************************************)
\* Where a collaborator may raise during fit: nowhere, or in one stage of
\* one fold.
FailStages == {"predictor.fit", "predictor.predict", "calibrator.fit"}
FailPoints(n) ==
    {None} \cup [tag : {"fail"}, fold : 0..(n - 1), stage : FailStages]

FailsAt(fail, i, stage) ==
    /\ fail # None
    /\ fail.fold = i
    /\ fail.stage = stage

\* One iteration of the core loop of fit, on split i.  st holds the local
\* predictor and calibrator, the aggregator and the calls made so far.
\* The local predictor and calibrator are the same two objects in every
\* iteration; the aggregator stores deep copies of them.  self.calibrator
\* is a BaseCalibrator (the constructor's signature), so the test
\* `self.calibrator is not None` holds.
FitFold(c, st, i, split, fail) ==
    LET trainRaises == c.train /\ FailsAt(fail, i, "predictor.fit")
        untrained == ~c.train /\ ~st.predictor.is_trained
        p1 == IF c.train
              THEN PredictorFit(st.predictor, split.fit)
              ELSE st.predictor
        calls1 == IF c.train
                  THEN Append(st.calls, [obj |-> "predictor", op |-> "fit",
                                         fold |-> i, data |-> split.fit])
                  ELSE st.calls
        y == PredictorPredict(p1, split.calib)
        calls2 == Append(calls1, [obj |-> "predictor", op |-> "predict",
                                  fold |-> i, X |-> split.calib])
        c1 == CalibratorFit(st.calibrator, split.calib, y[1])
        calls3 == Append(calls2, [obj |-> "calibrator", op |-> "fit",
                                  fold |-> i, y_true |-> split.calib,
                                  y_pred |-> y[1]])
    IN IF trainRaises
       THEN [st EXCEPT !.calls = calls1, !.exc = "PredictorFitError"]
       ELSE IF untrained
       THEN [st EXCEPT !.exc = "RuntimeError: model is not pre-trained"]
       ELSE IF FailsAt(fail, i, "predictor.predict")
       THEN [st EXCEPT !.predictor = p1, !.calls = calls2,
                       !.exc = "PredictorPredictError"]
       ELSE IF FailsAt(fail, i, "calibrator.fit")
       THEN [st EXCEPT !.predictor = p1, !.calls = calls3,
                       !.exc = "CalibratorFitError"]
       ELSE [predictor |-> p1,
             calibrator |-> c1,
             agg |-> AppendCalibrator(AppendPredictor(st.agg, i, p1), i, c1),
             calls |-> calls3,
             exc |-> "none"]

\* The core loop of fit over splits i .. n-1; stops at the first raise.
RECURSIVE FitLoop(_, _, _, _, _, _)
FitLoop(c, st, i, n, splits, fail) ==
    IF i >= n \/ st.exc # "none"
    THEN st
    ELSE FitLoop(c, FitFold(c, st, i, splits[i], fail), i + 1, n, splits,
                 fail)

\* FitResult without the test that rejects several folds in skip-training
\* mode.
FitResult_NoTrainCheck(c, agg, d, n, fail) ==
    LET splits == Splits(d, n)
        built == AggregatorInit(n, c.method)
    IN IF built.kind = "raised"
       THEN [agg |-> agg, exc |-> built.exc, calls |-> <<>>]
       ELSE LET st == FitLoop(c,
                              [predictor |-> TemplatePredictor(c),
                               calibrator |-> TemplateCalibrator,
                               agg |-> built.value,
                               calls |-> <<>>,
                               exc |-> "none"],
                              0, n, splits, fail)
            IN [agg |-> st.agg, exc |-> st.exc, calls |-> st.calls]

\* ConformalPredictor.fit(X, y) on a splitter yielding n folds of data d:
\* the new value of _cv_cp_agg, the exception (or "none"), the calls made.
FitResult(c, agg, d, n, fail) ==
    LET splits == Splits(d, n)
        built == AggregatorInit(n, c.method)
    IN IF built.kind = "raised"
       THEN [agg |-> agg, exc |-> built.exc, calls |-> <<>>]
       ELSE IF n > 1 /\ ~c.train
       THEN [agg |-> built.value,
             exc |-> "Exception: model already trained",
             calls |-> <<>>]
       ELSE LET st == FitLoop(c,
                              [predictor |-> TemplatePredictor(c),
                               calibrator |-> TemplateCalibrator,
                               agg |-> built.value,
                               calls |-> <<>>,
                               exc |-> "none"],
                              0, n, splits, fail)
            IN [agg |-> st.agg, exc |-> st.exc, calls |-> st.calls]

(***************************************************************************)
(* ConformalPredictor.predict and the wrappers of regression.py            *)
(***************************************************************************)
NotFitted == Raised("RuntimeError: call 'fit' method first")

\* CPPredict with the error returned instead of raised, as the accessors do.
CPPredict_ReturnsError(agg, X, alpha) ==
    IF agg = None
    THEN [out |-> Returned([tag |-> "RuntimeError",
                            msg |-> "call 'fit' method first"]),
          calls |-> <<>>]
    ELSE AggPredict(agg, X, alpha)

\* ConformalPredictor.predict(X, alpha): outcome and calls made.
CPPredict(agg, X, alpha) ==
    IF agg = None
    THEN [out |-> NotFitted, calls |-> <<>>]
    ELSE AggPredict(agg, X, alpha)

\* `(y_pred, y_lo, y_hi) = t`: Python unpacks a tuple into three names only
\* when the tuple has exactly three items.
Unpack3(out) ==
    IF out.kind = "raised"
    THEN out
    ELSE IF Len(out.value) = 3
    THEN Returned(<<out.value[1], out.value[2], out.value[3]>>)
    ELSE Raised("ValueError: too many values to unpack")

\* SplitCP.predict / CVPlus.predict, once the wrapper has been fitted.
WrapperPredictResult(agg, X, alpha) ==
    LET r == CPPredict(agg, X, alpha)
    IN [out |-> Unpack3(r.out), calls |-> r.calls]

\* Constructor arguments.  SplitCP and CVPlus build their ConformalPredictor
\* with method "cv+" and train left at True.
\* is_trained is read only when train is False.
Configs ==
    [wrapper : {"ConformalPredictor"}, method : Methods, train : {FALSE},
     pretrained : BOOLEAN]
    \cup
    [wrapper : {"ConformalPredictor"}, method : Methods, train : {TRUE},
     pretrained : {FALSE}]
    \cup
    [wrapper : {"SplitCP", "CVPlus"}, method : {CvPlusName}, train : {TRUE},
     pretrained : {FALSE}]

\* Number of folds the configured splitter yields: IdSplitter yields one,
\* KFoldSplitter at least two.
FoldCounts(c) ==
    IF c.wrapper = "SplitCP" THEN {1}
    ELSE IF c.wrapper = "CVPlus" THEN 2..MaxFolds
    ELSE 1..MaxFolds

EmptyMemo == [k \in {} |-> NoOutcome]

QIdle ==
    /\ q_a = None
    /\ q_w = None
    /\ q_alpha = 0
    /\ q_out = NoOutcome

\* No fit of an EnbPI in progress.
RunIdle == [pc |-> "idle", T |-> 0, b |-> 0, iter |-> 0, boot |-> <<>>]

NoCall == [op |-> "none"]

EIdle ==
    /\ enbpi = None
    /\ e_run = RunIdle
    /\ e_rng = <<>>
    /\ e_last = NoCall

Init ==
    /\ cfg \in Configs
    /\ cp_agg = None
    /\ fitCalled = FALSE
    /\ fitOk = FALSE
    /\ lastOp = "none"
    /\ lastArgs = None
    /\ outcome = NoOutcome
    /\ calls = <<>>
    /\ memo = EmptyMemo
    /\ repeated = FALSE
    /\ QIdle
    /\ EIdle

\* fit(X, y).  A wrapper's fit first builds a fresh ConformalPredictor.
Fit(d, n, fail) ==
    LET base == IF cfg.wrapper = "ConformalPredictor" THEN cp_agg ELSE None
        r == FitResult(cfg, base, d, n, fail)
    IN /\ cp_agg' = r.agg
       /\ fitCalled' = TRUE
       /\ fitOk' = (r.exc = "none")
       /\ lastOp' = "fit"
       /\ lastArgs' = None
       /\ outcome' = IF r.exc = "none" THEN Returned(None) ELSE Raised(r.exc)
       /\ calls' = r.calls
       /\ memo' = EmptyMemo
       /\ repeated' = FALSE
       /\ UNCHANGED <<cfg, qVars, eVars>>

\* Predict with a predict that consumes the stored residuals.
Predict_ConsumesResiduals(X, alpha) ==
    LET r == CPPredict(cp_agg, X, alpha)
        key == <<X, alpha>>
    IN /\ cfg.wrapper = "ConformalPredictor" \/ fitCalled
       /\ lastOp' = "predict"
       /\ lastArgs' = [X |-> X, alpha |-> alpha]
       /\ outcome' = r.out
       /\ calls' = r.calls
       /\ repeated' = (key \in DOMAIN memo)
       /\ memo' = IF key \in DOMAIN memo
                  THEN memo
                  ELSE [k \in (DOMAIN memo) \cup {key} |->
                           IF k = key THEN r.out ELSE memo[k]]
       /\ cp_agg' = IF cp_agg = None
                    THEN cp_agg
                    ELSE [cp_agg EXCEPT !.calibrators =
                             [k \in DOMAIN cp_agg.calibrators |->
                                 [residuals |-> None]]]
       /\ UNCHANGED <<cfg, fitCalled, fitOk, qVars, eVars>>

\* ConformalPredictor.predict(X, alpha).  Under a wrapper the instance
\* exists only once the wrapper's fit has been called.
Predict(X, alpha) ==
    LET r == CPPredict(cp_agg, X, alpha)
        key == <<X, alpha>>
    IN /\ cfg.wrapper = "ConformalPredictor" \/ fitCalled
       /\ lastOp' = "predict"
       /\ lastArgs' = [X |-> X, alpha |-> alpha]
       /\ outcome' = r.out
       /\ calls' = r.calls
       /\ repeated' = (key \in DOMAIN memo)
       /\ memo' = IF key \in DOMAIN memo
                  THEN memo
                  ELSE [k \in (DOMAIN memo) \cup {key} |->
                           IF k = key THEN r.out ELSE memo[k]]
       /\ UNCHANGED <<cfg, cp_agg, fitCalled, fitOk, qVars, eVars>>

\* SplitCP.predict(X_test, alpha) / CVPlus.predict(X_test, alpha)
WrapperPredict(X, alpha) ==
    LET r == IF ~fitCalled
             THEN [out |-> Raised("RuntimeError: Fit method should be called before predict"),
                   calls |-> <<>>]
             ELSE WrapperPredictResult(cp_agg, X, alpha)
    IN /\ cfg.wrapper # "ConformalPredictor"
       /\ lastOp' = "wrapper.predict"
       /\ lastArgs' = [X |-> X, alpha |-> alpha]
       /\ outcome' = r.out
       /\ calls' = r.calls
       /\ repeated' = FALSE
       /\ UNCHANGED <<cfg, cp_agg, fitCalled, fitOk, memo, qVars, eVars>>

\* ConformalPredictor.get_residuals(): before fit the RuntimeError object
\* is returned, not raised.
GetResiduals ==
    /\ cfg.wrapper = "ConformalPredictor" \/ fitCalled
    /\ lastOp' = "get_residuals"
    /\ lastArgs' = None
    /\ outcome' = IF cp_agg = None
                  THEN Returned([tag |-> "RuntimeError",
                                 msg |-> "call 'fit' method first"])
                  ELSE Returned(AggGetResiduals(cp_agg))
    /\ calls' = <<>>
    /\ repeated' = FALSE
    /\ UNCHANGED <<cfg, cp_agg, fitCalled, fitOk, memo, qVars, eVars>>

\* ConformalPredictor.get_weights()
GetWeights ==
    /\ cfg.wrapper = "ConformalPredictor" \/ fitCalled
    /\ lastOp' = "get_weights"
    /\ lastArgs' = None
    /\ outcome' = IF cp_agg = None
                  THEN Returned([tag |-> "RuntimeError",
                                 msg |-> "call 'fit' method first"])
                  ELSE Returned(AggGetWeights(cp_agg))
    /\ calls' = <<>>
    /\ repeated' = FALSE
    /\ UNCHANGED <<cfg, cp_agg, fitCalled, fitOk, memo, qVars, eVars>>

Next ==
    \/ \E d \in Datasets : \E n \in FoldCounts(cfg) : \E fail \in FailPoints(n) :
           Fit(d, n, fail)
    \/ \E X \in Queries : \E alpha \in Alphas : Predict(X, alpha)
    \/ \E X \in Queries : \E alpha \in Alphas : WrapperPredict(X, alpha)
    \/ GetResiduals
    \/ GetWeights

Spec == Init /\ [][Next]_vars

(***************************************************************************)
(* utils.quantile                                                          *)
(***************************************************************************)
\* Arrays are records [ndim, data]; data lists the items along the first
\* axis, at positions 1..len (position i stands for Python's index i - 1).
QValues == {1, 2}
QWeights == {0, 4999995, 5000000, 5000050}
QAlphas == {0, 3000000, 5000000, 9999998, 10000000}

Atol == 10            \* atol=1e-6 of the normalization check
RtolInverse == 100000 \* numpy's default rtol=1e-5, left in force by the call

SeqsUpTo(S, n) == UNION {[1..k -> S] : k \in 0..n}

QArraysA ==
    [ndim : {1}, data : SeqsUpTo(QValues, MaxLen)]
    \cup {[ndim |-> 0, data |-> <<2>>], [ndim |-> 2, data |-> <<1, 2>>]}

QArraysW ==
    {None}
    \cup [ndim : {1}, data : SeqsUpTo(QWeights, MaxLen)]
    \cup {[ndim |-> 2, data |-> <<Unit>>]}

Abs(x) == IF x < 0 THEN -x ELSE x

RECURSIVE SumSeq(_)
SumSeq(s) == IF s = <<>> THEN 0 ELSE s[1] + SumSeq(Tail(s))

\* np.isclose(x, y, atol=1e-6): |x - y| <= atol + rtol * |y|
IsClose(x, y) == Abs(x - y) <= Atol + (Abs(y) \div RtolInverse)

\* The orders np.argsort(a) may give: every permutation of the positions
\* that puts the items in ascending order (the default sort is not stable).
ArgSorts(data) ==
    LET n == Len(data)
    IN {p \in [1..n -> 1..n] :
          /\ \A i, j \in 1..n : i # j => p[i] # p[j]
          /\ \A i, j \in 1..n : i < j => data[p[i]] <= data[p[j]]}

\* np.cumsum(w[sorted_idxs])[k]
RECURSIVE CumSumAt(_, _, _)
CumSumAt(w, idxs, k) ==
    IF k = 0 THEN 0 ELSE w[idxs[k]] + CumSumAt(w, idxs, k - 1)

\* The item at position k of the ascending sort of data.
SortedAt(data, k) ==
    LET p == CHOOSE q \in ArgSorts(data) : TRUE
    IN data[p[k]]

\* np.quantile(a, alpha, method="higher"): the sorted item at Python index
\* ceil(alpha * (n - 1)).  On an empty array the library's answer (nan or an
\* IndexError) is left open: lib chooses.
NpQuantileHigher(a, alpha, lib) ==
    LET n == Len(a.data)
        pos == ((alpha * (n - 1)) + Unit - 1) \div Unit
    IN IF a.ndim = 0
       THEN Returned(a.data[1])
       ELSE IF n = 0
       THEN (IF lib = "nan" THEN [kind |-> "nan"] ELSE Raised("IndexError"))
       ELSE Returned(SortedAt(a.data, pos + 1))

\* The weighted branch without the sort: the weights are accumulated in
\* the order of a.
WeightedQuantile_Unsorted(a, alpha, w, idxs) ==
    LET n == Len(a.data)
        id == [k \in 1..n |-> k]
        hits == {k \in 1..n : CumSumAt(w.data, id, k) >= alpha}
    IN IF hits = {}
       THEN Raised("IndexError")
       ELSE LET first == CHOOSE k \in hits : \A j \in hits : k <= j
            IN Returned(a.data[first])

\* The weighted branch with a strict comparison: the first sorted position
\* whose cumulative weight exceeds alpha.
WeightedQuantile_Strict(a, alpha, w, idxs) ==
    LET n == Len(a.data)
        hits == {k \in 1..n : CumSumAt(w.data, idxs, k) > alpha}
    IN IF hits = {}
       THEN Raised("IndexError")
       ELSE LET first == CHOOSE k \in hits : \A j \in hits : k <= j
            IN Returned(a.data[idxs[first]])

\* The weighted branch: a[sorted_idxs[sorted_cumsum_w >= alpha][0]]
WeightedQuantile(a, alpha, w, idxs) ==
    LET n == Len(a.data)
        hits == {k \in 1..n : CumSumAt(w.data, idxs, k) >= alpha}
    IN IF hits = {}
       THEN Raised("IndexError")
       ELSE LET first == CHOOSE k \in hits : \A j \in hits : k <= j
            IN Returned(a.data[idxs[first]])

\* The call reaches np.argsort.
ReachesSort(a, alpha, w) ==
    /\ alpha > 0 /\ alpha < Unit
    /\ a.ndim = 1
    /\ w # None
    /\ w.ndim = 1
    /\ Len(w.data) = Len(a.data)
    /\ IsClose(SumSeq(w.data), Unit)

\* quantile(a, alpha, w=None)
Quantile(a, alpha, w, idxs, lib) ==
    IF alpha <= 0 \/ alpha >= Unit
    THEN Raised("ValueError")
    ELSE IF a.ndim > 1
    THEN Raised("NotImplementedError")
    ELSE IF w # None /\ w.ndim > 1
    THEN Raised("NotImplementedError")
    ELSE IF w = None
    THEN NpQuantileHigher(a, alpha, lib)
    ELSE IF a.ndim = 0
    THEN Raised("TypeError")
    ELSE IF Len(w.data) # Len(a.data)
    THEN Raised("RuntimeError: same shape")
    ELSE IF ~IsClose(SumSeq(w.data), Unit)
    THEN Raised("RuntimeError: not normalized")
    ELSE WeightedQuantile(a, alpha, w, idxs)

CPIdle ==
    /\ cfg = [wrapper |-> "ConformalPredictor", method |-> CvPlusName,
              train |-> TRUE, pretrained |-> FALSE]
    /\ cp_agg = None
    /\ fitCalled = FALSE
    /\ fitOk = FALSE
    /\ lastOp = "none"
    /\ lastArgs = None
    /\ outcome = NoOutcome
    /\ calls = <<>>
    /\ memo = EmptyMemo
    /\ repeated = FALSE

\* The pairs (a, w) the calls are made with: a weight vector of another
\* length than a is represented by the vectors of length 0 and 1.
QInputs(a, w) ==
    IF w = None
    THEN TRUE
    ELSE \/ w.ndim # 1
         \/ Len(w.data) = Len(a.data)
         \/ Len(w.data) <= 1

InitQ ==
    /\ CPIdle
    /\ EIdle
    /\ q_a \in QArraysA
    /\ q_w \in QArraysW
    /\ QInputs(q_a, q_w)
    /\ q_alpha = 0
    /\ q_out = NoOutcome

\* One call quantile(q_a, alpha, q_w).
QuantileCall(alpha) ==
    \E idxs \in (IF ReachesSort(q_a, alpha, q_w)
                 THEN ArgSorts(q_a.data) ELSE {<<>>}) :
      \E lib \in (IF q_w = None /\ q_a.ndim = 1 /\ q_a.data = <<>>
                  THEN {"nan", "raises"} ELSE {"raises"}) :
        /\ q_alpha' = alpha
        /\ q_out' = Quantile(q_a, alpha, q_w, idxs, lib)
        /\ UNCHANGED <<q_a, q_w, cpVars, eVars>>

NextQ == \E alpha \in QAlphas : QuantileCall(alpha)

SpecQ == InitQ /\ [][NextQ]_vars

(***************************************************************************)
(* EnbPI (regression.py)                                                   *)
(***************************************************************************)
\* Numbers (targets, predictions, residuals) are fixed-point: Unit is 1.0.
\* Training samples are the indices 0 .. T-1, as horizon_indices.
MaxT == 3          \* largest training size T
MaxB == 2          \* largest number B of bootstrap models

\* list(a): the items of a, one after the other.
List(a) == a \o <<>>

\* a[1] + ... + a[k]
RECURSIVE SumTo(_, _)
SumTo(a, k) == IF k = 0 THEN 0 ELSE a[k] + SumTo(a, k - 1)

\* random_state: None or an integer
RandomStates == {None, [tag |-> "int", value |-> 0]}

\* EnbPI.__init__(predictor, B, agg_func_loo=np.mean, random_state=None).
\* The attributes that fit assigns first are shown empty.
EnbPIInit(B, random_state) ==
    [B |-> B,
     random_state |-> random_state,
     residuals |-> <<>>,
     boot_predictors |-> None,
     boot_dict |-> EmptyDict,
     oob_dict |-> EmptyDict,
     oob_matrix |-> EmptyDict]

\* The samples resample(horizon_indices, replace=True, n_samples=T) may
\* give: T indices drawn with replacement, listed here in ascending order.
Draws(T) ==
    {d \in [1..T -> 0..(T - 1)] : \A k \in 1..(T - 1) : d[k] <= d[k + 1]}

\* np.setdiff1d(horizon_indices, boot)
OobUnits(T, boot) == (0..(T - 1)) \ {boot[k] : k \in 1..T}

\* random_state_b = None if self.random_state is None
\*                  else self.random_state + b
RandomStateB(random_state, b) ==
    IF random_state = None
    THEN None
    ELSE [tag |-> "int", value |-> random_state.value + b]

\* What resample can return when given random_state_b: anything with no
\* seed; with a seed, what that seed gave before, if it was used before.
RngDraws(random_state_b, T, rng) ==
    IF random_state_b = None
    THEN Draws(T)
    ELSE IF random_state_b.value \in DOMAIN rng
    THEN {rng[random_state_b.value]}
    ELSE Draws(T)

\* The training targets y_train[i].
YTrain(i) == i * Unit

\* A bootstrap predictor: self.predictor.copy() fitted on X_train[boot],
\* y_train[boot].  Fitting stores the mean of the targets it is given.
BootPredictorFit(boot) ==
    LET T == Len(boot)
    IN [boot |-> boot,
        mean |-> SumTo([k \in 1..T |-> YTrain(boot[k])], T) \div T]

\* Its prediction, the same for every point: the stored mean.
BootPredictorPredict(p, x) == p.mean

\* nonconformity_scores.mad(y_pred, y_true)
Mad(y_pred, y_true) == Abs(y_pred - y_true)

\* prediction_sets.constant_interval(y_pred, w): (y_pred - w, y_pred + w)
ConstantInterval(y_pred, w) == <<y_pred - w, y_pred + w>>

\* oobs_for_i_th_unit: 1 if i is in _oob_dict[b], else 0, for b in range(B)
OobsForUnit(self, i) ==
    [b \in 0..(self.B - 1) |-> IF i \in self.oob_dict[b] THEN 1 ELSE 0]

RowSum(row, B) == SumTo([k \in 1..B |-> row[k - 1]], B)

\* The training samples that are in the first bootstrap sample.
NeverOob_FirstSample(self, T) ==
    {i \in 0..(T - 1) : OobsForUnit(self, i)[0] = 0}

\* The training samples that are in every bootstrap sample.
NeverOob(self, T) ==
    {i \in 0..(T - 1) : RowSum(OobsForUnit(self, i), self.B) = 0}

\* A matrix entry is the fraction num / den.
ZeroRow(B) == [b \in 0..(B - 1) |-> [num |-> 0, den |-> 1]]

\* _oob_matrix when the loop over the rows raises at row stop: the rows
\* before it are filled in, the others are still zero.
OobMatrixPartial(self, T, stop) ==
    [i \in 0..(T - 1) |->
        IF i < stop
        THEN [b \in 0..(self.B - 1) |->
                [num |-> OobsForUnit(self, i)[b], den |-> 1]]
        ELSE ZeroRow(self.B)]

\* _oob_matrix without the normalization of its rows.
OobMatrix_Unnormalized(self, T) ==
    [i \in 0..(T - 1) |->
        [b \in 0..(self.B - 1) |->
            [num |-> OobsForUnit(self, i)[b], den |-> 1]]]

\* _oob_matrix after the normalization of its rows.
OobMatrix(self, T) ==
    [i \in 0..(T - 1) |->
        LET row == OobsForUnit(self, i)
        IN [b \in 0..(self.B - 1) |->
              [num |-> row[b], den |-> RowSum(row, self.B)]]]

\* _compute_loo_predictions / _compute_boot_residuals: row i of the matrix
\* times the bootstrap predictions for the point x.
LooPred(matrix, predictors, B, i, x) ==
    LET row == matrix[i]
        den == row[0].den
    IN SumTo([k \in 1..B |->
                 row[k - 1].num * BootPredictorPredict(predictors[k], x)],
             B) \div den

\* _compute_boot_residuals(boot_preds, y_train); X_train[i] is i.
BootResiduals(matrix, predictors, B, T) ==
    [k \in 1..T |->
        Mad(LooPred(matrix, predictors, B, k - 1, k - 1), YTrain(k - 1))]

IncreaseB == Raised("RuntimeError: increase B")

\* fit, lines 571-577: the attributes are reset and the sampling starts.
EFitBegin(T) ==
    /\ enbpi # None
    /\ e_run.pc = "idle"
    /\ enbpi' = [enbpi EXCEPT !.oob_dict = EmptyDict,
                              !.boot_predictors = [tag |-> "list",
                                                   items |-> <<>>],
                              !.boot_dict = EmptyDict]
    /\ e_run' = [pc |-> IF enbpi.B > 0 THEN "sampling" ELSE "finish",
                 T |-> T, b |-> 0, iter |-> 0, boot |-> <<>>]
    /\ e_last' = [op |-> "fit", out |-> NoOutcome]
    /\ UNCHANGED <<e_rng, cpVars, qVars>>

\* One iteration of `while oob_is_empty` for bootstrap index b: a sample is
\* drawn; with a non-empty out-of-bag set it is stored and the loop is left.
EResample ==
    /\ e_run.pc = "sampling"
    /\ LET T == e_run.T
           b == e_run.b
           random_state_b == RandomStateB(enbpi.random_state, b)
       IN \E boot \in RngDraws(random_state_b, T, e_rng) :
            LET oob_units == OobUnits(T, boot)
            IN /\ e_rng' = IF random_state_b = None
                           THEN e_rng
                           ELSE DictSet(e_rng, random_state_b.value, boot)
               /\ IF oob_units = {}
                  THEN /\ e_run' = [e_run EXCEPT !.iter = 1 - @,
                                                 !.boot = boot]
                       /\ UNCHANGED enbpi
                  ELSE /\ enbpi' = [enbpi EXCEPT
                                      !.boot_dict = DictSet(@, b, boot),
                                      !.oob_dict = DictSet(@, b, oob_units)]
                       /\ e_run' = [e_run EXCEPT
                                      !.pc = IF b + 1 < enbpi.B
                                             THEN "sampling" ELSE "finish",
                                      !.b = b + 1, !.iter = 0, !.boot = boot]
    /\ UNCHANGED <<e_last, cpVars, qVars>>

\* fit, lines 608-650, on an instance whose B samples are drawn: the
\* out-of-bag matrix, the bootstrap predictors and the residuals.  Gives
\* the instance as fit leaves it and what fit gives its caller.
FitFinish(self, T) ==
    LET B == self.B
        never == NeverOob(self, T)
        stop == CHOOSE i \in never : \A j \in never : i <= j
        matrix == OobMatrix(self, T)
        predictors == [k \in 1..B |-> BootPredictorFit(self.boot_dict[k - 1])]
        residuals == BootResiduals(matrix, predictors, B, T)
    IN IF never # {}
       THEN [self |-> [self EXCEPT
                         !.oob_matrix = OobMatrixPartial(self, T, stop)],
             out |-> IncreaseB]
       ELSE [self |-> [self EXCEPT
                         !.oob_matrix = matrix,
                         !.boot_predictors = [tag |-> "list",
                                              items |-> predictors],
                         !.residuals = @ \o residuals],
             out |-> Returned(None)]

EFitFinish ==
    LET r == FitFinish(enbpi, e_run.T)
    IN /\ e_run.pc = "finish"
       /\ enbpi' = r.self
       /\ e_last' = [op |-> "fit", out |-> r.out]
       /\ e_run' = [RunIdle EXCEPT !.pc = "done", !.T = e_run.T]
       /\ UNCHANGED <<e_rng, cpVars, qVars>>

\* The samples that hold one index T times.
PureDraws(T) == {[k \in 1..T |-> i] : i \in 0..(T - 1)}

\* The instance with the samples boots drawn by fit, before lines 608-650.
WithSamples(self, T, boots) ==
    [self EXCEPT
       !.boot_predictors = [tag |-> "list", items |-> <<>>],
       !.boot_dict = [b \in 0..(self.B - 1) |-> boots[b + 1]],
       !.oob_dict = [b \in 0..(self.B - 1) |-> OobUnits(T, boots[b + 1])]]

\* Instances as a successful first fit leaves them: two bootstrap models,
\* T training samples, each bootstrap sample holding one index.
FittedInstances ==
    UNION {
      {FitFinish(WithSamples(EnbPIInit(2, None), T, boots), T).self :
          boots \in {bs \in [1..2 -> PureDraws(T)] : bs[1][1] < bs[2][1]}} :
      T \in 2..MaxT}

\* The instances fit is called on: a new one, or one that an earlier fit
\* on T samples has left with its T residuals (e_run.T keeps that T until
\* the next fit begins).
FitInstances ==
    {EnbPIInit(B, rs) : B \in 1..MaxB, rs \in RandomStates}
    \cup FittedInstances

InitE ==
    /\ CPIdle
    /\ QIdle
    /\ enbpi \in FitInstances
    /\ e_run = [RunIdle EXCEPT !.T = Len(enbpi.residuals)]
    /\ e_rng = <<>>
    /\ e_last = NoCall

NextE ==
    \/ \E T \in 1..MaxT : EFitBegin(T)
    \/ EResample
    \/ EFitFinish

SpecE == InitE /\ [][NextE]_vars

(***************************************************************************)
(* EnbPI.predict                                                           *)
(***************************************************************************)
MaxTest == 3       \* largest number of test points

\* Test points are their positions 1 .. n in X_test; y_true, when given,
\* holds YTest(j) for test point j.
YTest(j) == (10 + j) * Unit

PAlphas == {-1000000, 0, 5000000, 10000000}

IntArg(v) == [tag |-> "int", value |-> v]
ArrayArg(data) == [tag |-> "array", data |-> data]

\* The arguments of one predict call: n test points, alpha, y_true given
\* or not, s given or not.
PredictArgs ==
    {[n |-> n, alpha |-> alpha, y_true |-> ArrayArg(<<>>), s |-> s] :
        n \in 1..MaxTest, alpha \in PAlphas,
        s \in {None} \cup {IntArg(v) : v \in 1..MaxTest}}
    \cup
    {[n |-> n, alpha |-> alpha, y_true |-> None, s |-> s] :
        n \in 1..MaxTest, alpha \in PAlphas, s \in {None, IntArg(1)}}

\* y_true as passed with the n test points.
YTrueOf(args) ==
    IF args.y_true = None
    THEN None
    ELSE ArrayArg(List([j \in 1..args.n |-> YTest(j)]))

\* The item at index k (from 0) of a in ascending order.
KthSmallest(a, k) ==
    LET n == Len(a)
    IN CHOOSE v \in {a[i] : i \in 1..n} :
          /\ Cardinality({i \in 1..n : a[i] < v}) <= k
          /\ Cardinality({i \in 1..n : a[i] <= v}) > k

\* d * r / Unit for a fraction r of Unit, computed on fewer digits so that
\* the product stays a machine integer.
MulFrac(d, r) == ((d \div 10000) * (r \div 1000))

\* np.quantile(a, q, method="linear") on a non-empty list a: the sorted
\* items around position q * (n - 1), interpolated.
NpQuantileLinear(a, q) ==
    IF q < 0 \/ q > Unit
    THEN Raised("ValueError")
    ELSE LET n == Len(a)
             virt == q * (n - 1)
             lo == virt \div Unit
             r == virt % Unit
             hi == IF lo + 1 < n THEN lo + 1 ELSE lo
             below == KthSmallest(a, lo)
         IN Returned(IF r = 0
                     THEN below
                     ELSE below + MulFrac(KthSmallest(a, hi) - below, r))

\* a[:-s]: the newest s entries are dropped.
DropFirst_Newest(a, s) ==
    IF s >= Len(a) THEN <<>> ELSE SubSeq(a, 1, Len(a) - s)

\* a[s:]
DropFirst(a, s) ==
    IF s >= Len(a) THEN <<>> ELSE SubSeq(a, s + 1, Len(a))

\* agg_func_loo(loo_preds, axis=0), np.mean: the mean over the T rows of
\* the leave-one-out predictions for the point x.
EnsemblePredict(self, x) ==
    LET T == Cardinality(DOMAIN self.oob_matrix)
    IN SumTo([k \in 1..T |->
                 LooPred(self.oob_matrix, self.boot_predictors.items,
                         self.B, k - 1, x)], T) \div T

\* Batch i of the loop of predict: the positions of its test points.
BatchPoints(i, n_batches, s, n) ==
    LET first == (i * s) + 1
        last == IF i = n_batches - 1 THEN n
                ELSE IF (i + 1) * s < n THEN (i + 1) * s ELSE n
    IN List([k \in 1..(last - first + 1) |-> first + k - 1])

\* One iteration of the loop of predict in which the residuals are updated
\* before the interval of the batch is computed.
PredictBatch_UpdateFirst(self, st, i, n_batches, s, n, alpha, y_true) ==
    LET X_batch == BatchPoints(i, n_batches, s, n)
        m == Len(X_batch)
        y_pred_batch ==
            List([k \in 1..m |-> EnsemblePredict(self, X_batch[k])])
        residuals == List([k \in 1..m |->
                             Mad(y_pred_batch[k], y_true.data[X_batch[k]])])
        updated == IF y_true = None
                   THEN st.updated_residuals
                   ELSE DropFirst(st.updated_residuals, s) \o residuals
        quantile == IF y_true = None
                    THEN st.res_quantile
                    ELSE NpQuantileLinear(updated, Unit - alpha).value
        pi == List([k \in 1..m |->
                      ConstantInterval(y_pred_batch[k], quantile)])
    IN [y_pred |-> st.y_pred \o y_pred_batch,
        y_lower |-> st.y_lower \o [k \in 1..m |-> pi[k][1]],
        y_upper |-> st.y_upper \o [k \in 1..m |-> pi[k][2]],
        updated_residuals |-> updated,
        res_quantile |-> quantile,
        batches |-> Append(st.batches,
                           [points |-> X_batch,
                            quantile |-> quantile,
                            before |-> st.updated_residuals,
                            after |-> updated])]

\* One iteration of the loop of predict.  st holds the three lists, the
\* working residuals, the current quantile and one record per batch done.
PredictBatch(self, st, i, n_batches, s, n, alpha, y_true) ==
    LET X_batch == BatchPoints(i, n_batches, s, n)
        m == Len(X_batch)
        y_pred_batch ==
            List([k \in 1..m |-> EnsemblePredict(self, X_batch[k])])
        pi == List([k \in 1..m |->
                      ConstantInterval(y_pred_batch[k], st.res_quantile)])
        residuals == List([k \in 1..m |->
                             Mad(y_pred_batch[k], y_true.data[X_batch[k]])])
        updated == IF y_true = None
                   THEN st.updated_residuals
                   ELSE DropFirst(st.updated_residuals, s) \o residuals
        quantile == IF y_true = None
                    THEN st.res_quantile
                    ELSE NpQuantileLinear(updated, Unit - alpha).value
    IN [y_pred |-> st.y_pred \o y_pred_batch,
        y_lower |-> st.y_lower \o [k \in 1..m |-> pi[k][1]],
        y_upper |-> st.y_upper \o [k \in 1..m |-> pi[k][2]],
        updated_residuals |-> updated,
        res_quantile |-> quantile,
        batches |-> Append(st.batches,
                           [points |-> X_batch,
                            quantile |-> st.res_quantile,
                            before |-> st.updated_residuals,
                            after |-> updated])]

RECURSIVE PredictLoop(_, _, _, _, _, _, _, _)
PredictLoop(self, st, i, n_batches, s, n, alpha, y_true) ==
    IF i >= n_batches
    THEN st
    ELSE PredictLoop(self,
                     PredictBatch(self, st, i, n_batches, s, n, alpha, y_true),
                     i + 1, n_batches, s, n, alpha, y_true)

\* EnbPI.predict(X_test, alpha, y_true, s) on n test points: what it gives
\* its caller, the batches it went through and its working residuals at
\* the end.
EnbPIPredict(self, n, alpha, y_true, s) ==
    LET first == NpQuantileLinear(self.residuals, Unit - alpha)
        whole == y_true = None \/ s = None
        n_batches == IF whole THEN 1 ELSE Len(y_true.data) \div s.value
        size == IF whole THEN n ELSE s.value
        st == PredictLoop(self,
                          [y_pred |-> <<>>, y_lower |-> <<>>,
                           y_upper |-> <<>>,
                           updated_residuals |-> self.residuals,
                           res_quantile |-> first.value,
                           batches |-> <<>>],
                          0, n_batches, size, n, alpha, y_true)
    IN IF first.kind = "raised"
       THEN [out |-> first, batches |-> <<>>,
             updated_residuals |-> self.residuals]
       ELSE IF self.boot_predictors = None
       THEN [out |-> Raised("RuntimeError: _boot_predictors is None"),
             batches |-> <<>>, updated_residuals |-> self.residuals]
       ELSE [out |-> Returned(<<st.y_pred, st.y_lower, st.y_upper>>),
             batches |-> st.batches,
             updated_residuals |-> st.updated_residuals]

\* predict(X_test, alpha, y_true, s)
EPredict(args) ==
    LET r == EnbPIPredict(enbpi, args.n, args.alpha, YTrueOf(args), args.s)
    IN /\ enbpi # None
       /\ e_run.pc \in {"idle", "done"}
       /\ e_last' = [op |-> "predict",
                     args |-> [args EXCEPT !.y_true = YTrueOf(args)],
                     out |-> r.out,
                     batches |-> r.batches,
                     residuals |-> enbpi.residuals,
                     updated_residuals |-> r.updated_residuals]
       /\ UNCHANGED <<enbpi, e_run, e_rng, cpVars, qVars>>

InitP ==
    /\ CPIdle
    /\ QIdle
    /\ enbpi \in FittedInstances
    /\ e_run = [RunIdle EXCEPT !.pc = "done"]
    /\ e_rng = <<>>
    /\ e_last = NoCall

NextP == \E args \in PredictArgs : EPredict(args)

SpecP == InitP /\ [][NextP]_vars

(***************************************************************************)
(* Properties                                                              *)
(***************************************************************************)
\* Number of folds stored in the aggregator.
StoredFolds == Cardinality(DOMAIN cp_agg.predictors)

\* C1: on an instance on which fit has never been called, every
\* predict(X, alpha) raises the 'not fitted' RuntimeError, calls neither a
\* predictor nor a calibrator, and leaves the instance as it was.
C1_PredictBeforeFitRaises ==
    [][\A X \in Queries : \A alpha \in Alphas :
          (~fitCalled /\ Predict(X, alpha)) =>
              /\ outcome' = NotFitted
              /\ calls' = <<>>
              /\ cp_agg' = cp_agg
              /\ cfg' = cfg
              /\ fitCalled' = fitCalled]_vars

C1_Witness ==
    /\ lastOp = "predict"
    /\ ~fitCalled
    /\ outcome = NotFitted

\* C2: after a fit that raised, and until a fit returns normally, no
\* predict returns an interval (it fails as not fitted).
C2_NoIntervalAfterFailedFit ==
    (lastOp = "predict" /\ ~fitOk) => outcome.kind # "returned"

\* C3: get_residuals and get_weights on an instance on which fit has not
\* been called raise an error instead of returning a value.
C3_AccessorsRaiseBeforeFit ==
    (lastOp \in {"get_residuals", "get_weights"} /\ ~fitCalled)
        => outcome.kind = "raised"

\* C4: no aggregator whose method differs from "cv+" ever exists, and
\* predict never reaches its 'method is not implemented' branch.
C4_OnlyCvPlusAggregators ==
    /\ cp_agg # None => cp_agg.method = CvPlusName
    /\ outcome # Raised("RuntimeError: method is not implemented")

\* C5: after a successful fit, SplitCP.predict / CVPlus.predict return a
\* triple (y_pred, y_lower, y_higher) for every X_test and alpha in (0,1).
C5_WrapperPredictReturnsTriple ==
    (lastOp = "wrapper.predict" /\ fitOk /\ AlphaValid(lastArgs.alpha))
        => (outcome.kind = "returned" /\ Len(outcome.value) = 3)

\* C6: with exactly one fold stored, predict calls that fold's predictor
\* once on X, then that fold's calibrator once with alpha and the
\* predictor's (y_pred, y_pred_lo, y_pred_hi, var_pred), and what it returns
\* is (y_pred, y_lo, y_hi, var_pred) with y_pred and var_pred as the
\* predictor produced them; the cv+ calibrator is not called.
C6_SingleFoldPath ==
    (lastOp = "predict" /\ cp_agg # None /\ StoredFolds = 1) =>
        LET k == CHOOSE j \in DOMAIN cp_agg.predictors : TRUE
            X == lastArgs.X
            alpha == lastArgs.alpha
            p == PredictorPredict(cp_agg.predictors[k], X)
            c == CalibratorCalibrate(cp_agg.calibrators[k], X, alpha, p[1])
        IN /\ Len(calls) = 2
           /\ calls[1] = [obj |-> "predictor", op |-> "predict", fold |-> k,
                          X |-> X]
           /\ calls[2] = [obj |-> "calibrator", op |-> "calibrate",
                          fold |-> k, X |-> X, alpha |-> alpha,
                          y_pred |-> p[1], y_pred_lo |-> p[2],
                          y_pred_hi |-> p[3], var_pred |-> p[4]]
           /\ c.kind = "raised" => outcome = c
           /\ c.kind = "returned" =>
                 outcome = Returned(<<p[1], c.value[1], c.value[2], p[4]>>)

C6_Witness ==
    /\ lastOp = "predict"
    /\ cp_agg # None
    /\ StoredFolds = 1
    /\ outcome.kind = "returned"
    /\ outcome.value[1].tag = "y_pred"

\* C7: with more than one fold stored, predict hands all stored
\* calibrators and predictors and the query set to the cv+ calibrator and
\* returns (None, y_lower, y_upper, None).
C7_MultiFoldPath ==
    (lastOp = "predict" /\ cp_agg # None /\ StoredFolds > 1
        /\ AlphaValid(lastArgs.alpha)) =>
        /\ calls = <<[obj |-> "cvplus", op |-> "calibrate",
                      X |-> lastArgs.X, alpha |-> lastArgs.alpha,
                      calibrators |-> DOMAIN cp_agg.calibrators,
                      predictors |-> DOMAIN cp_agg.predictors]>>
        /\ outcome.kind = "returned"
        /\ Len(outcome.value) = 4
        /\ outcome.value[1] = None
        /\ outcome.value[4] = None

Items(a) == {a.data[i] : i \in 1..Len(a.data)}

QCalled == q_out.kind # "none"

\* C9: quantile raises whenever alpha <= 0 or alpha >= 1, whenever a is
\* not one-dimensional, whenever w has another length than a, and whenever
\* the sum of w is farther than 1e-6 from 1.
C9_QuantileRejectsBadInput ==
    (QCalled /\ (\/ q_alpha <= 0
                 \/ q_alpha >= Unit
                 \/ q_a.ndim # 1
                 \/ (q_w # None /\ Len(q_w.data) # Len(q_a.data))
                 \/ (q_w # None /\ Abs(SumSeq(q_w.data) - Unit) > Atol)))
        => q_out.kind = "raised"

\* C10: for a non-empty one-dimensional a, alpha in (0,1) and w absent or
\* a non-negative vector of a's length whose sum is within 1e-6 of 1,
\* quantile returns an item of a.
C10_QuantileReturnsItem ==
    (/\ QCalled
     /\ q_a.ndim = 1
     /\ Len(q_a.data) >= 1
     /\ AlphaValid(q_alpha)
     /\ \/ q_w = None
        \/ /\ q_w # None
           /\ q_w.ndim = 1
           /\ Len(q_w.data) = Len(q_a.data)
           /\ \A i \in 1..Len(q_w.data) : q_w.data[i] >= 0
           /\ Abs(SumSeq(q_w.data) - Unit) <= Atol)
        => (q_out.kind = "returned" /\ q_out.value \in Items(q_a))

\* The orders the sort may give in a call quantile(q_a, alpha, q_w).
QOrders(alpha) ==
    IF ReachesSort(q_a, alpha, q_w) THEN ArgSorts(q_a.data) ELSE {<<>>}

\* C11: for fixed a (and w), quantile is non-decreasing in alpha: whenever
\* the calls for alpha1 <= alpha2 in (0,1) both return, the first result is
\* at most the second.
C11_QuantileMonotone ==
    (QCalled /\ AlphaValid(q_alpha) /\ q_out.kind = "returned") =>
        \A alpha2 \in QAlphas :
            (AlphaValid(alpha2) /\ q_alpha <= alpha2) =>
                \A idxs2 \in QOrders(alpha2) :
                    LET r == Quantile(q_a, alpha2, q_w, idxs2, "raises")
                    IN r.kind = "returned" => q_out.value <= r.value

C11_Witness ==
    /\ QCalled
    /\ q_w # None
    /\ q_alpha = 3000000
    /\ q_out = Returned(1)
    /\ \E idxs2 \in QOrders(9999998) :
          Quantile(q_a, 9999998, q_w, idxs2, "raises") = Returned(2)

\* The smallest item v of a such that the items <= v are at least the
\* fraction alpha of a.
RankQuantile(a, alpha) ==
    LET n == Len(a.data)
        ok == {v \in Items(a) :
                 Cardinality({i \in 1..n : a.data[i] <= v}) * Unit
                     >= alpha * n}
    IN CHOOSE v \in ok : \A u \in ok : v <= u

\* The weight vector with every w_i = 1/n.
EqualWeights(n) == [ndim |-> 1, data |-> [i \in 1..n |-> Unit \div n]]

\* C12: with w absent, quantile(a, alpha) returns the smallest item v of a
\* such that the fraction of items <= v is at least alpha, which is also
\* what quantile(a, alpha, w) returns with equal weights w_i = 1/n, for
\* every a of length n >= 1 and alpha in (0,1).
C12_UnweightedIsRankQuantile ==
    (/\ QCalled
     /\ q_w = None
     /\ q_a.ndim = 1
     /\ Len(q_a.data) >= 1
     /\ AlphaValid(q_alpha)) =>
        /\ q_out = Returned(RankQuantile(q_a, q_alpha))
        /\ Unit % Len(q_a.data) = 0 =>
              \A idxs \in ArgSorts(q_a.data) :
                  q_out = Quantile(q_a, q_alpha,
                                   EqualWeights(Len(q_a.data)), idxs, "raises")

\* C13: with train=False and a splitter that yields more than one fold,
\* fit raises before any predictor.fit, predictor.predict or calibrator.fit
\* call and stores no fold in the aggregator.
C13_SkipTrainingManyFoldsRaises ==
    [][\A d \in Datasets : \A n \in FoldCounts(cfg) :
        \A fail \in FailPoints(n) :
          (~cfg.train /\ n > 1 /\ Fit(d, n, fail)) =>
              /\ outcome'.kind = "raised"
              /\ calls' = <<>>
              /\ IF cp_agg' = None
                 THEN TRUE
                 ELSE /\ cp_agg'.predictors = EmptyDict
                      /\ cp_agg'.calibrators = EmptyDict]_vars

C13_Witness ==
    /\ lastOp = "fit"
    /\ ~cfg.train
    /\ cfg.pretrained
    /\ outcome = Raised("Exception: model already trained")
    /\ calls = <<>>
    /\ cp_agg # None
    /\ cp_agg.K > 1
    /\ cp_agg.predictors = EmptyDict

\* The resampling loop of fit is running.
InResamplingLoop == e_run.pc = "sampling"

\* Some sample that resample can still return for the current bootstrap
\* index leaves the loop.
LoopCanExit ==
    \E boot \in RngDraws(RandomStateB(enbpi.random_state, e_run.b),
                         e_run.T, e_rng) :
        OobUnits(e_run.T, boot) # {}

\* C20: for every T >= 1, B >= 1 and random_state (None or an integer), the
\* resampling loop of fit terminates for each bootstrap index b: after an
\* empty out-of-bag set a fresh draw follows, so that a draw that leaves
\* the loop stays possible, and the loop is left with a bootstrap sample
\* of T indices whose out-of-bag set is not empty.
C20_ResamplingLoopExits ==
    /\ InResamplingLoop => LoopCanExit
    /\ enbpi # None =>
          \A b \in DOMAIN enbpi.boot_dict :
              /\ Len(enbpi.boot_dict[b]) = e_run.T
              /\ enbpi.oob_dict[b] = OobUnits(e_run.T, enbpi.boot_dict[b])
              /\ enbpi.oob_dict[b] # {}

\* The last call was a predict that returned its three arrays.
PredictReturned == e_last.op = "predict" /\ e_last.out.kind = "returned"

\* The positions first .. last, in order.
Range(first, last) == [k \in 1..(last - first + 1) |-> first + k - 1]

\* n points cut into floor(n/s) batches of s points and, when points
\* remain, one batch with the n mod s points left.
FixedSizeBatches(n, s) ==
    LET full == n \div s
    IN [i \in 1..full |-> Range(((i - 1) * s) + 1, i * s)]
       \o (IF n % s > 0 THEN <<Range((full * s) + 1, n)>> ELSE <<>>)

\* C14: with y_true and s both given, predict goes through the n test
\* points as floor(n/s) consecutive batches of exactly s points followed by
\* one batch with the n mod s remaining points, every point in exactly one
\* batch and in input order, and each of the three returned arrays has one
\* entry per test point.
C14_BatchesOfSizeS ==
    (/\ PredictReturned
     /\ AlphaValid(e_last.args.alpha)
     /\ e_last.args.y_true # None
     /\ e_last.args.s # None)
        => /\ [i \in 1..Len(e_last.batches) |-> e_last.batches[i].points]
                = FixedSizeBatches(e_last.args.n, e_last.args.s.value)
           /\ \A k \in 1..3 : Len(e_last.out.value[k]) = e_last.args.n

\* C15: an online residual update made by predict carries over: the pool
\* from which the next predict on the instance computes its first quantile
\* is the pool as the previous call slid it, not the pool left by fit.
C15_UpdateCarriesOver ==
    [][\A args \in PredictArgs :
          (/\ PredictReturned
           /\ AlphaValid(e_last.args.alpha)
           /\ e_last.args.y_true # None
           /\ AlphaValid(args.alpha)
           /\ EPredict(args))
              => e_last'.residuals = e_last.updated_residuals]_vars

\* C16: predict on a fitted instance with alpha <= 0 or alpha >= 1 reports
\* an error and returns no interval.
C16_PredictRejectsAlpha ==
    (e_last.op = "predict"
        /\ (e_last.args.alpha <= 0 \/ e_last.args.alpha >= Unit))
        => e_last.out.kind = "raised"

\* C17: in every state reachable through fit and predict calls (fit calls
\* that raise included) the aggregator's predictor keys are its calibrator
\* keys, after a successful fit over K folds both are {0, ..., K-1}, and
\* the consistency assertion of CrossValCpAggregator.predict never fails.
C17_FoldKeysAgree ==
    /\ outcome # Raised("AssertionError")
    /\ cp_agg # None =>
          /\ DOMAIN cp_agg.predictors = DOMAIN cp_agg.calibrators
          /\ fitOk => DOMAIN cp_agg.predictors = 0..(cp_agg.K - 1)

C17_Witness ==
    /\ lastOp = "predict"
    /\ fitOk
    /\ cp_agg # None
    /\ cp_agg.K = MaxFolds
    /\ DOMAIN cp_agg.calibrators = 0..(MaxFolds - 1)
    /\ outcome.kind = "returned"

\* The predictor was obtained from the template by one training, on the fit
\* part of fold k.
TrainedOnFoldOnly(p, k) ==
    /\ Len(p.fits) = 1
    /\ p.fits[1].fold = k
    /\ p.fits[1].part = "fit"

\* The calibrator's residuals come from the calibration part of fold k and
\* from predictions of a predictor trained on fold k only.
CalibratedOnFoldOnly(c, k) ==
    /\ c.residuals # None
    /\ c.residuals.y_true.fold = k
    /\ c.residuals.y_true.part = "calib"
    /\ c.residuals.y_pred.X = c.residuals.y_true
    /\ Len(c.residuals.y_pred.by) = 1
    /\ c.residuals.y_pred.by[1].fold = k

\* C18: after a fit with training over K > 1 folds, the predictor stored
\* for fold k is a clone of the template trained on fold k's fit split and
\* on no other fold's data, and the calibrator stored for fold k is fitted
\* on fold k's calibration split only: the folds share no mutable state.
C18_FoldsIndependent ==
    (fitOk /\ cfg.train /\ cp_agg # None /\ cp_agg.K > 1) =>
        \A k \in DOMAIN cp_agg.predictors :
            /\ TrainedOnFoldOnly(cp_agg.predictors[k], k)
            /\ CalibratedOnFoldOnly(cp_agg.calibrators[k], k)

\* The total weight of the items of a that are <= v.
WeightUpTo(a, w, v) ==
    LET n == Len(a.data)
        below == [i \in 1..n |-> IF a.data[i] <= v THEN w.data[i] ELSE 0]
    IN SumSeq(List(below))

\* The items v of a such that the items <= v weigh at least alpha.
Reaching(a, w, alpha) == {v \in Items(a) : WeightUpTo(a, w, v) >= alpha}

\* The weights are non-negative.
NonNegative(w) == \A i \in 1..Len(w.data) : w.data[i] >= 0

\* The last call was quantile(q_a, q_alpha, q_w) on a one-dimensional a,
\* with alpha in (0,1) and non-negative weights of a's length that pass
\* the normalization check.
WeightedCall ==
    /\ QCalled
    /\ ReachesSort(q_a, q_alpha, q_w)
    /\ NonNegative(q_w)

\* C19: with non-negative weights that sum to 1, quantile(a, alpha, w)
\* returns the smallest item v of a such that the items <= v weigh at
\* least alpha, whatever order the sort gives to equal items; with weights
\* the normalization check accepts, the same holds whenever the call
\* returns.
C19_WeightedQuantileIsSmallest ==
    WeightedCall =>
        /\ (SumSeq(q_w.data) = Unit /\ Len(q_a.data) >= 1) =>
              q_out.kind = "returned"
        /\ q_out.kind = "returned" =>
              /\ q_out.value \in Reaching(q_a, q_w, q_alpha)
              /\ \A u \in Reaching(q_a, q_w, q_alpha) : q_out.value <= u
        /\ \A idxs \in ArgSorts(q_a.data) :
              Quantile(q_a, q_alpha, q_w, idxs, "raises") = q_out

C19_Witness ==
    /\ WeightedCall
    /\ SumSeq(q_w.data) = Unit
    /\ Cardinality(ArgSorts(q_a.data)) > 1
    /\ Cardinality(Items(q_a)) > 1
    /\ q_alpha = 5000000
    /\ q_out = Returned(1)
    /\ WeightUpTo(q_a, q_w, 1) = q_alpha

\* The last fit call has returned.
FitReturned == e_last.op = "fit" /\ e_last.out = Returned(None)

\* Training index i is in the bootstrap sample boot.
InSample(boot, i) == \E k \in 1..Len(boot) : boot[k] = i

\* The sum of the numerators of a row, whose entries share a denominator.
RowNumerators(row, B) == SumTo([k \in 1..B |-> row[k - 1].num], B)

\* C21: after every successful fit, the OOB matrix has T rows and B
\* columns, M[i,b] > 0 exactly when training index i is absent from
\* bootstrap sample b, every entry is non-negative, the non-zero entries of
\* a row are all equal, and every row sums to 1.
C21_OobMatrixNormalized ==
    FitReturned =>
        LET M == enbpi.oob_matrix
            T == e_run.T
            B == enbpi.B
        IN /\ DOMAIN M = 0..(T - 1)
           /\ \A i \in 0..(T - 1) :
                 /\ DOMAIN M[i] = 0..(B - 1)
                 /\ \A b \in 0..(B - 1) :
                       /\ M[i][b].den > 0
                       /\ M[i][b].num >= 0
                       /\ M[i][b].num > 0
                             <=> ~InSample(enbpi.boot_dict[b], i)
                 /\ \A b1, b2 \in 0..(B - 1) :
                       (M[i][b1].num > 0 /\ M[i][b2].num > 0)
                           => M[i][b1] = M[i][b2]
                 /\ \A b \in 0..(B - 1) :
                       RowNumerators(M[i], B) = M[i][b].den

C21_Witness ==
    /\ FitReturned
    /\ e_run.T = MaxT
    /\ enbpi.B = MaxB
    /\ \E i \in 0..(MaxT - 1) :
          \A b \in 0..(MaxB - 1) : enbpi.oob_matrix[i][b].num > 0
    /\ \E i \in 0..(MaxT - 1) :
          \E b \in 0..(MaxB - 1) : enbpi.oob_matrix[i][b].num = 0

\* Some training index is in every bootstrap sample the instance retains.
InEverySample(self, T) ==
    \E i \in 0..(T - 1) :
        \A b \in 0..(self.B - 1) : InSample(self.boot_dict[b], i)

\* C22: once the B samples are drawn, fit raises the 'increase B'
\* RuntimeError if and only if some training index is in all B retained
\* samples (always when B = 1 and T >= 2), and returns otherwise; when it
\* raises, no bootstrap predictor is fitted, the residual pool and the
\* retained samples are as they were, and no sampling follows.
C22_IncreaseBIffNeverOob ==
    [][e_run.pc = "finish" =>
          /\ e_run'.pc = "done"
          /\ e_last'.op = "fit"
          /\ IF InEverySample(enbpi, e_run.T)
             THEN /\ e_last'.out = IncreaseB
                  /\ enbpi'.boot_predictors.items = <<>>
                  /\ enbpi'.residuals = enbpi.residuals
                  /\ enbpi'.boot_dict = enbpi.boot_dict
                  /\ e_rng' = e_rng
             ELSE e_last'.out = Returned(None)
          /\ (enbpi.B = 1 /\ e_run.T >= 2) => e_last'.out = IncreaseB]_vars

C22_Witness ==
    /\ e_last.op = "fit"
    /\ e_last.out = IncreaseB
    /\ e_run.pc = "done"
    /\ e_run.T = MaxT
    /\ enbpi.B = MaxB
    /\ enbpi.residuals # <<>>
    /\ enbpi.boot_predictors.items = <<>>
    /\ DOMAIN enbpi.boot_dict = 0..(MaxB - 1)

\* The scores of the T training samples against their leave-one-out
\* predictions from the fit that the instance holds.
LooResiduals(self, T) ==
    List(BootResiduals(self.oob_matrix, self.boot_predictors.items,
                       self.B, T))

\* C23: after every successful fit on T training samples, the first on the
\* instance or a repeated one, the residual pool holds exactly T residuals,
\* residual i being the score of training sample i against its
\* leave-one-out prediction from that fit.
C23_PoolIsLooResiduals ==
    FitReturned =>
        /\ Len(enbpi.residuals) = e_run.T
        /\ enbpi.residuals = LooResiduals(enbpi, e_run.T)

\* The last call was a predict with y_true and s both given that returned.
OnlinePredictReturned ==
    /\ PredictReturned
    /\ e_last.args.y_true # None
    /\ e_last.args.s # None

\* The residuals of a batch: the score of each of its points, in batch
\* order, from the prediction returned for it and its true value.
NewResiduals(points) ==
    [k \in 1..Len(points) |->
        Mad(e_last.out.value[1][points[k]],
            e_last.args.y_true.data[points[k]])]

\* a without its s oldest (first) entries.
WithoutOldest(a, s) == [k \in 1..(Len(a) - s) |-> a[s + k]]

\* C24: within one predict call with y_true and s given, after each batch
\* the working residual pool is the pool before that batch without its s
\* oldest entries, followed by that batch's new residuals in batch order,
\* and the quantile used for the next batch is computed from exactly this
\* updated pool; the first batch starts from the pool of the instance.
C24_SlidingWindowFifo ==
    OnlinePredictReturned =>
        LET bs == e_last.batches
            s == e_last.args.s.value
        IN \A k \in 1..Len(bs) :
              /\ bs[k].before = IF k = 1 THEN e_last.residuals
                                ELSE bs[k - 1].after
              /\ bs[k].after
                    = WithoutOldest(bs[k].before, s)
                        \o NewResiduals(bs[k].points)
              /\ k > 1 =>
                    Returned(bs[k].quantile)
                        = NpQuantileLinear(bs[k - 1].after,
                                           Unit - e_last.args.alpha)
              /\ k = Len(bs) => e_last.updated_residuals = bs[k].after

C24_Witness ==
    /\ OnlinePredictReturned
    /\ AlphaValid(e_last.args.alpha)
    /\ e_last.args.s.value = 1
    /\ Len(e_last.batches) = MaxTest
    /\ e_last.batches[2].quantile # e_last.batches[1].quantile
    /\ e_last.batches[2].before # e_last.residuals

\* C25: throughout a predict call with y_true given, for every batch size
\* s >= 1 and every number of test points, the working residual pool keeps
\* the size of the pool left by fit: each batch removes as many residuals
\* as it appends.
C25_PoolSizeKept ==
    (OnlinePredictReturned /\ AlphaValid(e_last.args.alpha)) =>
        /\ \A k \in 1..Len(e_last.batches) :
              /\ Len(e_last.batches[k].before) = Len(e_last.residuals)
              /\ Len(e_last.batches[k].after) = Len(e_last.residuals)
        /\ Len(e_last.updated_residuals) = Len(e_last.residuals)

\* y_true with other values from test point c on.
YTrueChangedFrom(c) ==
    ArrayArg(List([j \in 1..e_last.args.n |->
                     IF j >= c THEN YTest(j) + Unit ELSE YTest(j)]))

\* The lower and upper bounds returned for the points, as a pair.
BoundsAt(out, points) ==
    [k \in 1..Len(points) |->
        <<out.value[2][points[k]], out.value[3][points[k]]>>]

\* The bounds that quantile q of the residuals gives the points.
BoundsFrom(out, points, q) ==
    [k \in 1..Len(points) |->
        <<out.value[1][points[k]] - q, out.value[1][points[k]] + q>>]

\* C26: in predict the interval of each batch is built from the (1-alpha)
\* quantile of the residual pool as the updates of the batches before it
\* left it (the pool of the instance for the first batch); the true values
\* of the batch and of later batches do not influence its interval; with
\* y_true absent the test set is one batch and pool and quantile stay those
\* of the instance for the whole call.
C26_IntervalFromEarlierBatches ==
    PredictReturned =>
        LET bs == e_last.batches
            a == e_last.args
        IN /\ \A k \in 1..Len(bs) :
                 LET pool == IF k = 1 THEN e_last.residuals
                             ELSE bs[k - 1].after
                     q == NpQuantileLinear(pool, Unit - a.alpha).value
                 IN /\ BoundsAt(e_last.out, bs[k].points)
                          = BoundsFrom(e_last.out, bs[k].points, q)
                    /\ a.y_true # None =>
                          LET other == EnbPIPredict(
                                           enbpi, a.n, a.alpha,
                                           YTrueChangedFrom(bs[k].points[1]),
                                           a.s)
                          IN BoundsAt(other.out, bs[k].points)
                                = BoundsAt(e_last.out, bs[k].points)
           /\ a.y_true = None =>
                 /\ Len(bs) = 1
                 /\ bs[1].points = Range(1, a.n)
                 /\ bs[1].after = e_last.residuals
                 /\ e_last.updated_residuals = e_last.residuals

C26_Witness ==
    /\ OnlinePredictReturned
    /\ AlphaValid(e_last.args.alpha)
    /\ Len(e_last.batches) = MaxTest
    /\ e_last.batches[2].quantile # e_last.batches[1].quantile
    /\ BoundsAt(e_last.out, e_last.batches[2].points)
          # BoundsFrom(e_last.out, e_last.batches[2].points,
                       e_last.batches[1].quantile)
    /\ EnbPIPredict(enbpi, e_last.args.n, e_last.args.alpha,
                    YTrueChangedFrom(1), e_last.args.s).out # e_last.out

====
